---- MODULE Spec2Model ----
(***************************************************************************)
(* The concurrent extraction pipeline of extractor.py: the Flask control   *)
(* handlers (/start, /pause, /resume, /stop), the background thread that   *)
(* builds a RealEstateExtractor and calls run(), and the pool workers that *)
(* execute process_sitemap for each sitemap URL.                           *)
(*                                                                         *)
(* Every step is one access to state shared between threads (the module    *)
(* globals extraction_status and extraction_paused, the extractor's        *)
(* seen_ids and total_properties); code between two such accesses is       *)
(* thread-local and is folded into the step that precedes it.              *)
(***************************************************************************)
EXTENDS Integers, Sequences, FiniteSets, TLC

\* ---- bounds of the model
MaxStarts == 2      \* calls of /start in one behaviour of Spec
MaxRunJobs == 1     \* sitemap URLs in one configuration of Spec
MaxJobs == 2        \* sitemap URLs in one configuration of SpecRun
MaxWorkers == 2     \* max_workers in one configuration of SpecRun
MaxCalls == 2       \* calls of /pause, /resume and /stop in one behaviour
LogBurst == 98      \* /pause and /resume pairs in one burst of SpecLog
MaxUrls == 2        \* <url> elements in one document of SpecDecode

\* ---- program constants
LogLimit == 200

None == "None"
Runs == 1..MaxStarts

VARIABLES
    extraction_status,  \* the module global dict
    extraction_paused,  \* the module global pause flag
    handler,            \* per /start call: where the request handler is
    config,             \* per /start call: request.json
    thread,             \* per /start call: where the background thread is
    extractor,          \* per /start call: the RealEstateExtractor it built
    jobs,               \* per /start call: the futures of process_sitemap
    calls,              \* number of /pause, /resume, /stop calls so far
    logger,             \* the order of the appends to logs, and emit's state
    stopped,            \* per /start call: /stop was called while its thread lived
    document,           \* one call of extract_listings_from_sitemap and its save
    response            \* what the latest call of /download returned

vars == <<extraction_status, extraction_paused, handler, config, thread,
          extractor, jobs, calls, logger, stopped, document, response>>

\* What the server holds apart from the document being read.
globals == <<extraction_status, extraction_paused, handler, config, thread,
             extractor, jobs, calls, logger, stopped, response>>

\* ---- inputs

\* A sitemap URL is its path segments; the last one is the file name, a stem
\* followed by ".xml.gz".  The first two URLs end in the same file name.
SitemapPool ==
    << <<"a", [stem |-> "x", suffix |-> ".xml.gz"]>>,
       <<"b", [stem |-> "x", suffix |-> ".xml.gz"]>>,
       <<"c", [stem |-> "y", suffix |-> ".xml.gz"]>>,
       <<"d", [stem |-> "z", suffix |-> ".xml.gz"]>> >>

\* The <url> elements of the document served at a sitemap URL, each reduced
\* to the property id its <loc> decodes to (0: a <loc> that does not decode).
DocAt(url) ==
    CASE url[1] = "a" -> <<1>>
      [] url[1] = "b" -> <<1, 2, 1>>
      [] OTHER        -> <<2, 0>>

SitemapUrls(n) == [i \in 1..n |-> SitemapPool[i]]

\* os.makedirs raises for a directory that cannot be created.
MakedirsFails(dir) == dir = "denied"

\* The output formats process_sitemap saves for (lines 540-543).
Formats == {"csv", "json"}

\* The configurations with at most n sitemaps and at most w workers: one whose
\* output directory cannot be created, and the csv ones.
Configs(n, w) ==
    { [output_dir |-> "denied", sitemaps |-> SitemapUrls(1), workers |-> 1,
       output_format |-> "csv"] }
    \cup
    { [output_dir |-> "out", sitemaps |-> SitemapUrls(k), workers |-> v,
       output_format |-> "csv"] :
        k \in 0..n, v \in 1..w }

\* Configs(n, w), one json configuration, and one that asks for a format the
\* code does not know.
ConfigsAnyFormat(n, w) ==
    Configs(n, w)
    \cup
    { [output_dir |-> "out", sitemaps |-> SitemapUrls(1), workers |-> 1,
       output_format |-> f] : f \in {"json", "xml"} }

NoConfig == [output_dir |-> None, sitemaps |-> <<>>, workers |-> 0,
             output_format |-> None]

\* ---- helpers

\* extraction_status['logs'] is modelled by its length.  The appends to it
\* are numbered from 1 since the list was last replaced by an empty one (line
\* 1257): logger.appended is the number of the latest append, logger.newest
\* the number of the entry that is last in the list.  logger.slice is the
\* list logs[-200:] that emit has computed and not yet stored (line 115),
\* by the number of its last entry; 0 when no store is pending.
NoLogging == [appended |-> 0, newest |-> 0, slice |-> 0]

\* No emit is between its slice and its store.  The thread inside emit has
\* not returned from its logger call, and every other logger call waits for
\* the handler's lock: no extraction thread steps until the store is done.
LoggerIdle == logger.slice = 0

\* WebUILogger.emit, k times in a row by one thread: the length of the list
\* after the k-th append and the stores of the emits before it.  The store
\* of the k-th emit, when its length test (line 114) asks for one, is the
\* step EmitStore.
Emit(logs, k) ==
    IF k = 0 \/ logs + k <= LogLimit THEN logs + k
    ELSE IF k = 1 THEN logs + 1 ELSE LogLimit + 1

\* logger after the same k emits on a list of length logs.
LoggerEmit(lg, logs, k) ==
    IF k = 0 THEN lg
    ELSE [lg EXCEPT !.appended = @ + k,
                    !.newest = lg.appended + k,
                    !.slice = IF logs + k > LogLimit
                              THEN lg.appended + k
                              ELSE 0]

\* logger after extraction_status['logs'].append(...) outside emit.
LoggerAppend(lg) ==
    [lg EXCEPT !.appended = @ + 1, !.newest = lg.appended + 1]

\* sitemap_url.split('/')[-1].replace('.xml.gz', '').  An output file is
\* named listings_<category>_<YYYYMMDD_HHMMSS>.<format> (lines 407-408 and
\* 469-470): of one run, which has one format, the files written within one
\* second of the clock differ by the category alone.  The model follows the
\* saves of one such second and names a file by its category.
Category(url) == url[Len(url)].stem

NoExtractor == [output_dir |-> None, seen_ids |-> {}, total_properties |-> 0,
                saved_files |-> <<>>]

\* download is what download_sitemap returned for the job: "pending" before
\* the call, "ok" for the content, "failed" for None.  write is what became
\* of its output file: "pending" before lines 540-543, "ok" for a file
\* written, "failed" for an exception while writing, "none" when no save
\* function wrote anything.
NewJob(url) == [url |-> url, pc |-> "queued", download |-> "pending",
                write |-> "pending", idx |-> 0, listings |-> <<>>, tot |-> 0]

Terminal == {"done", "skipped", "failed"}
InFlight(r) == {j \in DOMAIN jobs[r] : jobs[r][j].pc \notin Terminal \cup {"queued"}}
ThreadLive(r) == thread[r] \in {"ctor", "run", "pool"}
\* From line 1255 of its /start call until its background thread ends.
RunActive(r) == handler[r] = "resetting" \/ ThreadLive(r)
AllTerminal(r) == \A j \in DOMAIN jobs[r] : jobs[r][j].pc \in Terminal

\* ---- the str methods that parse_listing_url calls, on strings

\* The position of the first occurrence of sub in s at or after position i,
\* counted from 1; 0 if there is none.
RECURSIVE Find(_, _, _)
Find(s, sub, i) ==
    IF i + Len(sub) - 1 > Len(s) THEN 0
    ELSE IF SubSeq(s, i, i + Len(sub) - 1) = sub THEN i
    ELSE Find(s, sub, i + 1)

\* s.split(sep): the pieces between the occurrences of sep, empty ones kept.
RECURSIVE Split(_, _)
Split(s, sep) ==
    LET i == Find(s, sep, 1)
    IN IF i = 0 THEN <<s>>
       ELSE <<SubSeq(s, 1, i - 1)>>
              \o Split(SubSeq(s, i + Len(sep), Len(s)), sep)

\* sep.join(seq)
RECURSIVE Join(_, _)
Join(seq, sep) ==
    IF Len(seq) = 0 THEN ""
    ELSE IF Len(seq) = 1 THEN seq[1]
    ELSE seq[1] \o sep \o Join(Tail(seq), sep)

\* s.strip(c) for a one-character c
RECURSIVE Strip(_, _)
Strip(s, c) ==
    IF Len(s) > 0 /\ SubSeq(s, 1, 1) = c
    THEN Strip(SubSeq(s, 2, Len(s)), c)
    ELSE IF Len(s) > 0 /\ SubSeq(s, Len(s), Len(s)) = c
    THEN Strip(SubSeq(s, 1, Len(s) - 1), c)
    ELSE s

\* s.replace(old, new): every occurrence, from the left, without overlap.
RECURSIVE Replace(_, _, _)
Replace(s, old, new) ==
    LET i == Find(s, old, 1)
    IN IF i = 0 THEN s
       ELSE SubSeq(s, 1, i - 1) \o new
              \o Replace(SubSeq(s, i + Len(old), Len(s)), old, new)

\* urlparse(url).path for a URL that is either "scheme://host" followed by
\* a path or a path alone, with an optional ?query and #fragment and without
\* ;parameters: what follows the host, up to the first "?" or "#".
UrlPath(url) ==
    LET CutAt(s, c) == LET i == Find(s, c, 1)
                       IN IF i = 0 THEN s ELSE SubSeq(s, 1, i - 1)
        scheme == Find(url, "://", 1)
        rest == IF scheme = 0 THEN url ELSE SubSeq(url, scheme + 3, Len(url))
        hier == CutAt(CutAt(rest, "#"), "?")
        slash == Find(hier, "/", 1)
    IN IF scheme = 0 THEN hier
       ELSE IF slash = 0 THEN ""
       ELSE SubSeq(hier, slash, Len(hier))

Upper == {"A", "B", "C", "D", "E", "F", "G", "H", "I", "J", "K", "L", "M",
          "N", "O", "P", "Q", "R", "S", "T", "U", "V", "W", "X", "Y", "Z"}

Digit == {"0", "1", "2", "3", "4", "5", "6", "7", "8", "9"}

AllIn(s, class) == \A i \in 1..Len(s) : SubSeq(s, i, i) \in class

\* re.search(r'^(.+?)-([A-Z]{2})-(\d{5})$', address_part) with letters of
\* either case accepted for the state.
MatchAddressAnyLetters(address_part) ==
    LET n == Len(address_part)
    IN IF /\ n >= 10
          /\ SubSeq(address_part, n - 8, n - 8) = "-"
          /\ SubSeq(address_part, n - 5, n - 5) = "-"
          /\ AllIn(SubSeq(address_part, n - 4, n), Digit)
       THEN <<SubSeq(address_part, 1, n - 9),
              SubSeq(address_part, n - 7, n - 6),
              SubSeq(address_part, n - 4, n)>>
       ELSE <<>>

\* re.search(r'^(.+?)-([A-Z]{2})-(\d{5})$', address_part) on a string
\* without a line break: its three groups, or <<>> for no match.  What
\* follows group 1 has nine characters and ends the string, so the match, if
\* there is one, puts all but the last nine characters in group 1, and
\* (.+?) wants one character at least.
MatchAddress(address_part) ==
    LET n == Len(address_part)
    IN IF /\ n >= 10
          /\ SubSeq(address_part, n - 8, n - 8) = "-"
          /\ AllIn(SubSeq(address_part, n - 7, n - 6), Upper)
          /\ SubSeq(address_part, n - 5, n - 5) = "-"
          /\ AllIn(SubSeq(address_part, n - 4, n), Digit)
       THEN <<SubSeq(address_part, 1, n - 9),
              SubSeq(address_part, n - 7, n - 6),
              SubSeq(address_part, n - 4, n)>>
       ELSE <<>>

\* Lines 305-311 with the city taken as the last token alone.
SplitAddressCityLastToken(address_city) ==
    LET parts_list == Split(address_city, "-")
        n == Len(parts_list)
    IN IF n >= 2
       THEN [city |-> parts_list[n],
             address |-> Join(SubSeq(parts_list, 1, n - 1), " ")]
       ELSE [city |-> "", address |-> Replace(address_city, "-", " ")]

\* Lines 305-311: parts_list[-2:] is the city and parts_list[:-2] the address.
SplitAddressCity(address_city) ==
    LET parts_list == Split(address_city, "-")
        n == Len(parts_list)
    IN IF n >= 2
       THEN [city |-> Join(SubSeq(parts_list, n - 1, n), " "),
             address |-> Join(SubSeq(parts_list, 1, n - 2), " ")]
       ELSE [city |-> "", address |-> Replace(address_city, "-", " ")]

\* parse_listing_url with the id segment returned as it stands.
parse_listing_url_whole_id(url) ==
    IF url = None THEN <<>>
    ELSE LET parts == Split(Strip(UrlPath(url), "/"), "/")
         IN IF Len(parts) >= 3
            THEN LET match == MatchAddress(parts[2])
                 IN IF match # <<>>
                    THEN <<[property_id |-> parts[3],
                            address |-> SplitAddressCity(match[1]).address,
                            city |-> SplitAddressCity(match[1]).city,
                            state |-> match[2],
                            zipcode |-> match[3]]>>
                    ELSE <<>>
            ELSE <<>>

\* parse_listing_url: <<the dict>>, or <<>> for None.  A <loc> without text
\* gives url = None: urlparse returns a bytes path, path.strip('/') raises
\* and line 320 catches it.
parse_listing_url(url) ==
    IF url = None THEN <<>>
    ELSE LET parts == Split(Strip(UrlPath(url), "/"), "/")
         IN IF Len(parts) >= 3
            THEN LET property_id == Replace(parts[3], "_zpid", "")
                     match == MatchAddress(parts[2])
                 IN IF match # <<>>
                    THEN <<[property_id |-> property_id,
                            address |-> SplitAddressCity(match[1]).address,
                            city |-> SplitAddressCity(match[1]).city,
                            state |-> match[2],
                            zipcode |-> match[3]]>>
                    ELSE <<>>
            ELSE <<>>

\* The <loc> texts of the documents read: slugs with a prefix of three, two,
\* one and no tokens, with an empty token, with a state and a ZIP code in the
\* prefix, with a state in lower case and a ZIP code of four digits, paths
\* of two segments and of none, a <loc> without text, and an id that another
\* URL carries too.
ListingUrls ==
    {"/homedetails/123-Main-St-Springfield-IL-62701/12345_zpid/",
     "https://www.zillow.com/homedetails/9-Elm-Troy-NY-12180/7_zpid/?a=1#b",
     "/homedetails/Oak-Chicago-IL-60601/8_zpid/",
     "/homedetails/Springfield-IL-62701/9_zpid/",
     "/homedetails/1-Low-Rd--TX-75001/_zpid",
     "/b/4-Elm-St-Troy-NY-12180-IL-62701/12345_zpid/",
     "/homedetails/123-Main-St-Springfield-il-62701/10_zpid/",
     "/homedetails/123-Main-St-Springfield-IL-6270/11_zpid/",
     "/homedetails/-IL-62701/12_zpid/",
     "/homedetails/IL-62701/13_zpid/",
     "/homedetails/14_zpid/",
     "",
     None}

\* A document is up to MaxUrls <url> elements, each with a <loc> and without
\* <lastmod>.
Documents ==
    UNION {[1..n -> ListingUrls] : n \in 1..MaxUrls}

\* extract_listings_from_sitemap and save_to_csv not running.
NoDocument ==
    [pc |-> "none", urls |-> <<>>, idx |-> 0, parsed |-> <<>>,
     seen_ids |-> {}, listings |-> <<>>, csv |-> <<>>]

\* No call of /download yet.
NoResponse == [status |-> 0, directory |-> None, file |-> <<>>]

\* ---- initial state: the module globals as lines 83-99 set them

InitGlobals ==
    /\ extraction_status =
         [running |-> FALSE, progress |-> 0, current_category |-> "",
          total_categories |-> 0, processed_categories |-> 0,
          total_properties |-> 0, logs |-> 0, files |-> <<>>,
          start_time |-> 0, end_time |-> 0, output_dir |-> None,
          error |-> None]
    /\ extraction_paused = FALSE
    /\ handler = [r \in Runs |-> "idle"]
    /\ config = [r \in Runs |-> NoConfig]
    /\ thread = [r \in Runs |-> "none"]
    /\ extractor = [r \in Runs |-> NoExtractor]
    /\ jobs = [r \in Runs |-> <<>>]
    /\ calls = 0
    /\ logger = NoLogging
    /\ stopped = [r \in Runs |-> FALSE]
    /\ response = NoResponse

\* No document is being read when the server starts.
Init ==
    /\ InitGlobals
    /\ document = NoDocument

\* ---- /start

\* StartCheck without the early return of line 1252.
StartCheckNoReturn(r, cfg) ==
    /\ handler[r] = "idle"
    /\ \A q \in 1..(r - 1) : handler[q] # "idle"
    /\ handler' = [handler EXCEPT ![r] = "accepted"]
    /\ config' = [config EXCEPT ![r] = cfg]
    /\ UNCHANGED <<extraction_status, extraction_paused, thread, extractor,
                   jobs, calls, logger, stopped, document, response>>

\* lines 1251-1254: the running test, then request.json
StartCheck(r, cfg) ==
    /\ handler[r] = "idle"
    /\ \A q \in 1..(r - 1) : handler[q] # "idle"
    /\ IF extraction_status.running
       THEN /\ handler' = [handler EXCEPT ![r] = "rejected"]
            /\ UNCHANGED config
       ELSE /\ handler' = [handler EXCEPT ![r] = "accepted"]
            /\ config' = [config EXCEPT ![r] = cfg]
    /\ UNCHANGED <<extraction_status, extraction_paused, thread, extractor,
                   jobs, calls, logger, stopped, document, response>>

\* line 1255
StartSetRunning(r) ==
    /\ handler[r] = "accepted"
    /\ handler' = [handler EXCEPT ![r] = "resetting"]
    /\ extraction_status' = [extraction_status EXCEPT !.running = TRUE]
    /\ UNCHANGED <<extraction_paused, config, thread, extractor, jobs, calls,
                   logger, stopped, document, response>>

\* lines 1256-1260 and 1278-1280: reset five fields, start the thread
StartReset(r) ==
    /\ handler[r] = "resetting"
    /\ handler' = [handler EXCEPT ![r] = "sleeping"]
    /\ extraction_status' =
         [extraction_status EXCEPT !.error = None, !.logs = 0, !.files = <<>>,
                                   !.progress = 0, !.total_properties = 0]
    /\ logger' = [logger EXCEPT !.appended = 0, !.newest = 0]
    /\ thread' = [thread EXCEPT ![r] = "ctor"]
    /\ UNCHANGED <<extraction_paused, config, extractor, jobs, calls, stopped,
                    document, response>>

\* lines 1282-1287: after the sleep, answer from extraction_status['error']
StartReturn(r) ==
    /\ handler[r] = "sleeping"
    /\ handler' = [handler EXCEPT ![r] =
         IF extraction_status.error # None THEN "error" ELSE "started"]
    /\ UNCHANGED <<extraction_status, extraction_paused, config, thread,
                   extractor, jobs, calls, logger, stopped, document, response>>

\* ---- the background thread (start_extraction.run)

\* lines 1264-1270 with __init__ (123-174), and 1272-1275 when it raises
Construct(r) ==
    /\ thread[r] = "ctor"
    /\ LoggerIdle
    /\ IF MakedirsFails(config[r].output_dir)
       THEN /\ extraction_status' =
                 [extraction_status EXCEPT !.logs = @ + 1,
                                           !.error = "makedirs",
                                           !.running = FALSE]
            /\ logger' = LoggerAppend(logger)
            /\ thread' = [thread EXCEPT ![r] = "fatal"]
            /\ UNCHANGED extractor
       ELSE /\ extraction_status' =
                 [extraction_status EXCEPT !.logs = Emit(@, 1),
                                           !.output_dir = config[r].output_dir]
            /\ logger' = LoggerEmit(logger, extraction_status.logs, 1)
            /\ thread' = [thread EXCEPT ![r] = "run"]
            /\ extractor' = [extractor EXCEPT ![r] =
                 [NoExtractor EXCEPT !.output_dir = config[r].output_dir]]
    /\ UNCHANGED <<extraction_paused, handler, config, jobs, calls, stopped,
                    document, response>>

\* run(), lines 555-583: up to the submission of every sitemap to the pool.
\* Six log lines (560-565), then the error of line 568 or the line of 576.
RunBegin(r) ==
    /\ thread[r] = "run"
    /\ LoggerIdle
    /\ logger' = LoggerEmit(logger, extraction_status.logs, 7)
    /\ IF config[r].sitemaps = <<>>
       THEN /\ extraction_status' =
                 [extraction_status EXCEPT !.start_time = r,
                                           !.logs = Emit(@, 7)]
            /\ thread' = [thread EXCEPT ![r] = "returned"]
            /\ extractor' = [extractor EXCEPT ![r] = NoExtractor]
            /\ UNCHANGED jobs
       ELSE /\ extraction_status' =
                 [extraction_status EXCEPT
                    !.start_time = r,
                    !.total_categories = Len(config[r].sitemaps),
                    !.logs = Emit(@, 7)]
            /\ thread' = [thread EXCEPT ![r] = "pool"]
            /\ jobs' = [jobs EXCEPT ![r] =
                 [i \in 1..Len(config[r].sitemaps) |->
                    NewJob(config[r].sitemaps[i])]]
            /\ UNCHANGED extractor
    /\ UNCHANGED <<extraction_paused, handler, config, calls, stopped,
                    document, response>>

\* RunFinish without the try/except of lines 586-589: the exception of a
\* future escapes run() and reaches the handler of lines 1272-1275.
RunFinishNoCatch(r) ==
    /\ thread[r] = "pool"
    /\ AllTerminal(r)
    /\ LoggerIdle
    /\ IF \E j \in DOMAIN jobs[r] : jobs[r][j].pc = "failed"
       THEN /\ extraction_status' =
                 [extraction_status EXCEPT !.logs = @ + 1,
                                           !.error = "malformed",
                                           !.running = FALSE]
            /\ logger' = LoggerAppend(logger)
            /\ thread' = [thread EXCEPT ![r] = "fatal"]
       ELSE /\ extraction_status' =
                 [extraction_status EXCEPT !.logs = Emit(@, 5),
                                           !.end_time = r,
                                           !.running = FALSE]
            /\ logger' = LoggerEmit(logger, extraction_status.logs, 5)
            /\ thread' = [thread EXCEPT ![r] = "done"]
    /\ extractor' = [extractor EXCEPT ![r] = NoExtractor]
    /\ jobs' = [jobs EXCEPT ![r] = <<>>]
    /\ UNCHANGED <<extraction_paused, handler, config, calls, stopped,
                    document, response>>

\* run(), lines 585-605: every future has completed; a future that raised is
\* logged (588-589); then the summary, end_time and running
RunFinish(r) ==
    /\ thread[r] = "pool"
    /\ AllTerminal(r)
    /\ LoggerIdle
    /\ LET k == 5 + Cardinality({j \in DOMAIN jobs[r] :
                                   jobs[r][j].pc = "failed"})
       IN /\ extraction_status' =
               [extraction_status EXCEPT !.logs = Emit(@, k),
                                         !.end_time = r,
                                         !.running = FALSE]
          /\ logger' = LoggerEmit(logger, extraction_status.logs, k)
    /\ thread' = [thread EXCEPT ![r] = "done"]
    /\ extractor' = [extractor EXCEPT ![r] = NoExtractor]
    /\ jobs' = [jobs EXCEPT ![r] = <<>>]
    /\ UNCHANGED <<extraction_paused, handler, config, calls, stopped,
                    document, response>>

\* ---- process_sitemap, one pool worker per future

\* TakeJob by a pool that starts a thread for every future submitted.
TakeJobUnbounded(r, j) ==
    /\ thread[r] = "pool"
    /\ j \in DOMAIN jobs[r]
    /\ LoggerIdle
    /\ jobs[r][j].pc = "queued"
    /\ \A i \in 1..(j - 1) : jobs[r][i].pc # "queued"
    /\ jobs' = [jobs EXCEPT ![r][j].pc =
         IF extraction_paused THEN "sleep" ELSE "stopChk"]
    /\ UNCHANGED <<extraction_status, extraction_paused, handler, config,
                   thread, extractor, calls, logger, stopped, document, response>>

\* A worker takes the oldest queued future (the pool's queue is FIFO, with at
\* most max_workers threads) and evaluates the while condition of line 514.
TakeJob(r, j) ==
    /\ thread[r] = "pool"
    /\ j \in DOMAIN jobs[r]
    /\ LoggerIdle
    /\ jobs[r][j].pc = "queued"
    /\ \A i \in 1..(j - 1) : jobs[r][i].pc # "queued"
    /\ Cardinality(InFlight(r)) < config[r].workers
    /\ jobs' = [jobs EXCEPT ![r][j].pc =
         IF extraction_paused THEN "sleep" ELSE "stopChk"]
    /\ UNCHANGED <<extraction_status, extraction_paused, handler, config,
                   thread, extractor, calls, logger, stopped, document, response>>

\* PauseLoop with "if extraction_paused" for "while extraction_paused": the
\* flag is not read again after the sleep.
PauseLoopOnce(r, j) ==
    /\ j \in DOMAIN jobs[r]
    /\ LoggerIdle
    /\ jobs[r][j].pc = "sleep"
    /\ jobs' = [jobs EXCEPT ![r][j].pc =
         IF ~extraction_status.running THEN "skipped" ELSE "stopChk"]
    /\ UNCHANGED <<extraction_status, extraction_paused, handler, config,
                   thread, extractor, calls, logger, stopped, document, response>>

\* lines 515-517, then the while condition of line 514 again
PauseLoop(r, j) ==
    /\ j \in DOMAIN jobs[r]
    /\ LoggerIdle
    /\ jobs[r][j].pc = "sleep"
    /\ jobs' = [jobs EXCEPT ![r][j].pc =
         IF ~extraction_status.running THEN "skipped"
         ELSE IF extraction_paused THEN "sleep" ELSE "stopChk"]
    /\ UNCHANGED <<extraction_status, extraction_paused, handler, config,
                   thread, extractor, calls, logger, stopped, document, response>>

\* lines 520-534: the stop test, then the three log lines and the status
CheckStop(r, j) ==
    /\ j \in DOMAIN jobs[r]
    /\ LoggerIdle
    /\ jobs[r][j].pc = "stopChk"
    /\ IF ~extraction_status.running
       THEN /\ jobs' = [jobs EXCEPT ![r][j].pc = "skipped"]
            /\ UNCHANGED <<extraction_status, logger>>
       ELSE /\ jobs' = [jobs EXCEPT ![r][j].pc = "fetch"]
            /\ logger' = LoggerEmit(logger, extraction_status.logs, 3)
            /\ extraction_status' =
                 [extraction_status EXCEPT
                    !.logs = Emit(@, 3),
                    !.current_category = Category(jobs[r][j].url),
                    !.processed_categories = j,
                    !.progress = (j * 100) \div Len(jobs[r])]
    /\ UNCHANGED <<extraction_paused, handler, config, thread, extractor,
                   calls, stopped, document, response>>

\* The job as it stands before entry i of its document: past the last entry
\* the loop ends and line 389 logs.
AtEntry(job, i) ==
    IF i > Len(DocAt(job.url))
    THEN [job EXCEPT !.pc = "save", !.idx = 0]
    ELSE [job EXCEPT !.pc = "entry", !.idx = i]

LoopLogs(job) == IF job.pc = "save" THEN 1 ELSE 0

\* Fetch with a download_sitemap that reports its failure as the run's error
\* and ends the run, in place of lines 269-271.
FetchFailureFatal(r, j) ==
    /\ j \in DOMAIN jobs[r]
    /\ LoggerIdle
    /\ jobs[r][j].pc = "fetch"
    /\ \E outcome \in {"ok", "fetch_failed", "malformed"} :
         CASE outcome = "fetch_failed" ->
                /\ jobs' = [jobs EXCEPT ![r][j].pc = "save",
                                        ![r][j].download = "failed"]
                /\ extraction_status' =
                     [extraction_status EXCEPT !.logs = Emit(@, 1),
                                               !.error = "download",
                                               !.running = FALSE]
                /\ logger' = LoggerEmit(logger, extraction_status.logs, 1)
           [] outcome = "malformed" ->
                /\ jobs' = [jobs EXCEPT ![r][j].pc = "failed",
                                        ![r][j].download = "ok"]
                /\ UNCHANGED <<extraction_status, logger>>
           [] OTHER ->
                LET job == AtEntry([jobs[r][j] EXCEPT !.download = "ok"], 1)
                IN
                /\ jobs' = [jobs EXCEPT ![r][j] = job]
                /\ extraction_status' =
                     [extraction_status EXCEPT
                        !.logs = Emit(@, 1 + LoopLogs(job))]
                /\ logger' = LoggerEmit(logger, extraction_status.logs,
                                        1 + LoopLogs(job))
    /\ UNCHANGED <<extraction_paused, handler, config, thread, extractor,
                   calls, stopped, document, response>>

\* lines 336-348: download_sitemap and ET.fromstring
Fetch(r, j) ==
    /\ j \in DOMAIN jobs[r]
    /\ LoggerIdle
    /\ jobs[r][j].pc = "fetch"
    /\ \E outcome \in {"ok", "fetch_failed", "malformed"} :
         CASE outcome = "fetch_failed" ->
                /\ jobs' = [jobs EXCEPT ![r][j].pc = "save",
                                        ![r][j].download = "failed"]
                /\ extraction_status' =
                     [extraction_status EXCEPT !.logs = Emit(@, 1)]
                /\ logger' = LoggerEmit(logger, extraction_status.logs, 1)
           [] outcome = "malformed" ->
                /\ jobs' = [jobs EXCEPT ![r][j].pc = "failed",
                                        ![r][j].download = "ok"]
                /\ UNCHANGED <<extraction_status, logger>>
           [] OTHER ->
                LET job == AtEntry([jobs[r][j] EXCEPT !.download = "ok"], 1)
                IN
                /\ jobs' = [jobs EXCEPT ![r][j] = job]
                /\ extraction_status' =
                     [extraction_status EXCEPT
                        !.logs = Emit(@, 1 + LoopLogs(job))]
                /\ logger' = LoggerEmit(logger, extraction_status.logs,
                                        1 + LoopLogs(job))
    /\ UNCHANGED <<extraction_paused, handler, config, thread, extractor,
                   calls, stopped, document, response>>

\* CheckSeen with a stop test at every <url> element: the job is given up
\* once running is false.
CheckSeenOrStop(r, j) ==
    /\ j \in DOMAIN jobs[r]
    /\ LoggerIdle
    /\ jobs[r][j].pc = "entry"
    /\ LET job == jobs[r][j]
           id == DocAt(job.url)[job.idx]
           nxt == IF ~extraction_status.running
                  THEN [job EXCEPT !.pc = "skipped"]
                  ELSE IF id = 0 \/ id \in extractor[r].seen_ids
                       THEN AtEntry(job, job.idx + 1)
                       ELSE [job EXCEPT !.pc = "add"]
       IN /\ jobs' = [jobs EXCEPT ![r][j] = nxt]
          /\ extraction_status' =
               [extraction_status EXCEPT !.logs = Emit(@, LoopLogs(nxt))]
          /\ logger' = LoggerEmit(logger, extraction_status.logs,
                                  LoopLogs(nxt))
    /\ UNCHANGED <<extraction_paused, handler, config, thread, extractor,
                   calls, stopped, document, response>>

\* lines 357-371: one <url> element up to the membership test on seen_ids
\* (the progress line of 353-354 needs 10,000 elements and is never logged)
CheckSeen(r, j) ==
    /\ j \in DOMAIN jobs[r]
    /\ LoggerIdle
    /\ jobs[r][j].pc = "entry"
    /\ LET job == jobs[r][j]
           id == DocAt(job.url)[job.idx]
           nxt == IF id = 0 \/ id \in extractor[r].seen_ids
                  THEN AtEntry(job, job.idx + 1)
                  ELSE [job EXCEPT !.pc = "add"]
       IN /\ jobs' = [jobs EXCEPT ![r][j] = nxt]
          /\ extraction_status' =
               [extraction_status EXCEPT !.logs = Emit(@, LoopLogs(nxt))]
          /\ logger' = LoggerEmit(logger, extraction_status.logs,
                                  LoopLogs(nxt))
    /\ UNCHANGED <<extraction_paused, handler, config, thread, extractor,
                   calls, stopped, document, response>>

\* AddListing with listings.insert(0, listing) for listings.append(listing).
AddListingFirst(r, j) ==
    /\ j \in DOMAIN jobs[r]
    /\ LoggerIdle
    /\ jobs[r][j].pc = "add"
    /\ LET job == jobs[r][j]
           id == DocAt(job.url)[job.idx]
           nxt == AtEntry([job EXCEPT !.listings = <<id>> \o @], job.idx + 1)
       IN /\ jobs' = [jobs EXCEPT ![r][j] = nxt]
          /\ extractor' = [extractor EXCEPT ![r].seen_ids = @ \cup {id}]
          /\ extraction_status' =
               [extraction_status EXCEPT !.logs = Emit(@, LoopLogs(nxt))]
          /\ logger' = LoggerEmit(logger, extraction_status.logs,
                                  LoopLogs(nxt))
    /\ UNCHANGED <<extraction_paused, handler, config, thread, calls,
                   stopped, document, response>>

\* lines 374-387: seen_ids.add and listings.append
AddListing(r, j) ==
    /\ j \in DOMAIN jobs[r]
    /\ LoggerIdle
    /\ jobs[r][j].pc = "add"
    /\ LET job == jobs[r][j]
           id == DocAt(job.url)[job.idx]
           nxt == AtEntry([job EXCEPT !.listings = Append(@, id)], job.idx + 1)
       IN /\ jobs' = [jobs EXCEPT ![r][j] = nxt]
          /\ extractor' = [extractor EXCEPT ![r].seen_ids = @ \cup {id}]
          /\ extraction_status' =
               [extraction_status EXCEPT !.logs = Emit(@, LoopLogs(nxt))]
          /\ logger' = LoggerEmit(logger, extraction_status.logs,
                                  LoopLogs(nxt))
    /\ UNCHANGED <<extraction_paused, handler, config, thread, calls,
                   stopped, document, response>>

\* Save with the file name tracked before the file is written: a failed
\* write leaves its name in saved_files and files.
SaveTracksFirst(r, j) ==
    /\ j \in DOMAIN jobs[r]
    /\ LoggerIdle
    /\ jobs[r][j].pc = "save"
    /\ LET job == jobs[r][j]
           name == Category(job.url)
       IN IF job.listings # <<>> /\ config[r].output_format \in Formats
          THEN \E written \in BOOLEAN :
                 /\ jobs' = [jobs EXCEPT
                      ![r][j].pc = "total",
                      ![r][j].write = IF written THEN "ok" ELSE "failed",
                      ![r][j].tot = extractor[r].total_properties]
                 /\ extractor' = [extractor EXCEPT
                      ![r].saved_files = Append(@, name)]
                 /\ extraction_status' =
                      [extraction_status EXCEPT !.files = Append(@, name),
                                                !.logs = Emit(@, 1)]
                 /\ logger' = LoggerEmit(logger, extraction_status.logs, 1)
          ELSE /\ jobs' = [jobs EXCEPT
                    ![r][j].pc = "total",
                    ![r][j].write = "none",
                    ![r][j].tot = extractor[r].total_properties]
               /\ UNCHANGED <<extractor, extraction_status, logger>>
    /\ UNCHANGED <<extraction_paused, handler, config, thread, calls,
                   stopped, document, response>>

\* lines 540-546: save_to_csv / save_to_json, then the read of
\* self.total_properties that begins the += of line 546
Save(r, j) ==
    /\ j \in DOMAIN jobs[r]
    /\ LoggerIdle
    /\ jobs[r][j].pc = "save"
    /\ LET job == jobs[r][j]
           name == Category(job.url)
       IN IF job.listings # <<>> /\ config[r].output_format \in Formats
          THEN \E written \in BOOLEAN :
                 /\ jobs' = [jobs EXCEPT
                      ![r][j].pc = "total",
                      ![r][j].write = IF written THEN "ok" ELSE "failed",
                      ![r][j].tot = extractor[r].total_properties]
                 /\ IF written
                    THEN /\ extractor' = [extractor EXCEPT
                              ![r].saved_files = Append(@, name)]
                         /\ extraction_status' =
                              [extraction_status EXCEPT
                                 !.files = Append(@, name),
                                 !.logs = Emit(@, 1)]
                    ELSE /\ UNCHANGED extractor
                         /\ extraction_status' =
                              [extraction_status EXCEPT !.logs = Emit(@, 1)]
                 /\ logger' = LoggerEmit(logger, extraction_status.logs, 1)
          ELSE /\ jobs' = [jobs EXCEPT
                    ![r][j].pc = "total",
                    ![r][j].write = "none",
                    ![r][j].tot = extractor[r].total_properties]
               /\ UNCHANGED <<extractor, extraction_status, logger>>
    /\ UNCHANGED <<extraction_paused, handler, config, thread, calls,
                   stopped, document, response>>

\* lines 546-549: the store that ends the +=, then the status
AddTotal(r, j) ==
    /\ j \in DOMAIN jobs[r]
    /\ LoggerIdle
    /\ jobs[r][j].pc = "total"
    /\ LET sum == jobs[r][j].tot + Len(jobs[r][j].listings) IN
       /\ extractor' = [extractor EXCEPT ![r].total_properties = sum]
       /\ extraction_status' =
            [extraction_status EXCEPT !.total_properties = sum]
    /\ jobs' = [jobs EXCEPT ![r][j].pc = "done", ![r][j].tot = 0]
    /\ UNCHANGED <<extraction_paused, handler, config, thread, calls, logger,
                   stopped, document, response>>

\* ---- /pause, /resume, /stop

\* pause_extraction as a toggle of the flag.
pause_toggle ==
    /\ calls < MaxCalls
    /\ calls' = calls + 1
    /\ extraction_paused' = ~extraction_paused
    /\ extraction_status' = [extraction_status EXCEPT !.logs = @ + 1]
    /\ logger' = LoggerAppend(logger)
    /\ UNCHANGED <<handler, config, thread, extractor, jobs, stopped,
                    document, response>>

\* lines 1290-1296
pause_extraction ==
    /\ calls < MaxCalls
    /\ calls' = calls + 1
    /\ extraction_paused' = TRUE
    /\ extraction_status' = [extraction_status EXCEPT !.logs = @ + 1]
    /\ logger' = LoggerAppend(logger)
    /\ UNCHANGED <<handler, config, thread, extractor, jobs, stopped,
                    document, response>>

\* lines 1299-1305
resume_extraction ==
    /\ calls < MaxCalls
    /\ calls' = calls + 1
    /\ extraction_paused' = FALSE
    /\ extraction_status' = [extraction_status EXCEPT !.logs = @ + 1]
    /\ logger' = LoggerAppend(logger)
    /\ UNCHANGED <<handler, config, thread, extractor, jobs, stopped,
                    document, response>>

\* lines 1308-1313
stop_extraction ==
    /\ calls < MaxCalls
    /\ calls' = calls + 1
    /\ extraction_status' =
         [extraction_status EXCEPT !.running = FALSE, !.logs = @ + 1]
    /\ logger' = LoggerAppend(logger)
    /\ stopped' = [r \in Runs |-> stopped[r] \/ RunActive(r)]
    /\ UNCHANGED <<extraction_paused, handler, config, thread, extractor, jobs,
                    document, response>>

\* ---- the log near its limit

\* line 115 of an emit whose length test found more than 200 entries: the
\* slice replaces the list, with whatever was appended to the list since.
EmitStore ==
    /\ ~LoggerIdle
    /\ extraction_status' = [extraction_status EXCEPT !.logs = LogLimit]
    /\ logger' = [logger EXCEPT !.newest = logger.slice, !.slice = 0]
    /\ UNCHANGED <<extraction_paused, handler, config, thread, extractor,
                   jobs, calls, stopped, document, response>>

\* /pause then /resume, LogBurst times over on an empty log, with no other
\* thread scheduled in between: 2 * LogBurst entries, the flag clear again.
ControlBurst ==
    /\ logger.appended = 0
    /\ extraction_paused' = FALSE
    /\ extraction_status' =
         [extraction_status EXCEPT !.logs = @ + 2 * LogBurst]
    /\ logger' = [logger EXCEPT !.appended = @ + 2 * LogBurst,
                                !.newest = logger.appended + 2 * LogBurst]
    /\ UNCHANGED <<handler, config, thread, extractor, jobs, calls, stopped,
                    document, response>>

\* ---- the system

Step ==
    \/ \E r \in Runs : StartSetRunning(r)
    \/ \E r \in Runs : StartReset(r)
    \/ \E r \in Runs : StartReturn(r)
    \/ \E r \in Runs : Construct(r)
    \/ \E r \in Runs : RunBegin(r)
    \/ \E r \in Runs : RunFinish(r)
    \/ \E r \in Runs, j \in 1..MaxJobs : TakeJob(r, j)
    \/ \E r \in Runs, j \in 1..MaxJobs : PauseLoop(r, j)
    \/ \E r \in Runs, j \in 1..MaxJobs : CheckStop(r, j)
    \/ \E r \in Runs, j \in 1..MaxJobs : Fetch(r, j)
    \/ \E r \in Runs, j \in 1..MaxJobs : CheckSeen(r, j)
    \/ \E r \in Runs, j \in 1..MaxJobs : AddListing(r, j)
    \/ \E r \in Runs, j \in 1..MaxJobs : Save(r, j)
    \/ \E r \in Runs, j \in 1..MaxJobs : AddTotal(r, j)
    \/ pause_extraction
    \/ resume_extraction
    \/ stop_extraction

\* Up to MaxStarts calls of /start, each for at most MaxRunJobs sitemaps.
Next ==
    \/ \E r \in Runs, cfg \in Configs(MaxRunJobs, 1) : StartCheck(r, cfg)
    \/ Step

Spec == Init /\ [][Next]_vars

\* One call of /start, for up to MaxJobs sitemaps and MaxWorkers workers, in
\* any output format.
NextRun ==
    \/ \E cfg \in ConfigsAnyFormat(MaxJobs, MaxWorkers) : StartCheck(1, cfg)
    \/ Step

SpecRun == Init /\ [][NextRun]_vars

\* Every thread that can take a step is scheduled in the end: the request
\* handler of a /start call, its background thread, and the pool worker that
\* runs a future.  Nothing obliges a client to call /start, /pause, /resume
\* or /stop.
Handler(r) == StartSetRunning(r) \/ StartReset(r) \/ StartReturn(r)

Thread(r) == Construct(r) \/ RunBegin(r) \/ RunFinish(r)

Worker(r, j) ==
    \/ TakeJob(r, j)
    \/ PauseLoop(r, j)
    \/ CheckStop(r, j)
    \/ Fetch(r, j)
    \/ CheckSeen(r, j)
    \/ AddListing(r, j)
    \/ Save(r, j)
    \/ AddTotal(r, j)

Fairness ==
    \A r \in Runs :
        /\ WF_vars(Handler(r))
        /\ WF_vars(Thread(r))
        /\ \A j \in 1..MaxJobs : WF_vars(Worker(r, j))

SpecFair == Spec /\ Fairness

SpecRunFair == SpecRun /\ Fairness

\* SpecRun with enough control calls to fill the log: the emits that find
\* more than LogLimit entries, and their stores.
NextLog ==
    \/ NextRun
    \/ ControlBurst
    \/ EmitStore

SpecLog == Init /\ [][NextLog]_vars

\* ---- one call of extract_listings_from_sitemap, and save_to_csv on what
\* ---- it returns

\* Lines 411-420
fields ==
    <<"property_id", "listing_url", "address", "city", "state", "zipcode",
      "last_modified", "last_modified_est">>

\* Lines 429-438: the cell of a field; None is written as the empty string.
Cell(listing, field) ==
    IF listing[field] = None THEN "" ELSE listing[field]

\* Line 366: parsed = self.parse_listing_url(listing_url)
ParseListing ==
    /\ document.pc = "loc"
    /\ document.idx < Len(document.urls)
    /\ document' =
         [document EXCEPT
            !.pc = "parsed",
            !.parsed = parse_listing_url(document.urls[document.idx + 1])]
    /\ UNCHANGED globals

\* Lines 368-387: an entry that did not parse, or whose id is in seen_ids, is
\* passed over; any other becomes a listing.  The element has no <lastmod>:
\* last_modified is '' and convert_utc_to_est returns None (line 224).
AddOrSkip ==
    /\ document.pc = "parsed"
    /\ LET listing_url == document.urls[document.idx + 1]
           parsed == document.parsed
       IN IF parsed = <<>>
          THEN document' = [document EXCEPT !.pc = "loc", !.idx = @ + 1]
          ELSE IF parsed[1].property_id \in document.seen_ids
          THEN document' = [document EXCEPT !.pc = "loc", !.idx = @ + 1]
          ELSE document' =
                 [document EXCEPT
                    !.pc = "loc",
                    !.idx = @ + 1,
                    !.seen_ids = @ \cup {parsed[1].property_id},
                    !.listings =
                       Append(@, [property_id |-> parsed[1].property_id,
                                  listing_url |-> listing_url,
                                  address |-> parsed[1].address,
                                  city |-> parsed[1].city,
                                  state |-> parsed[1].state,
                                  zipcode |-> parsed[1].zipcode,
                                  last_modified |-> "",
                                  last_modified_est |-> None])]
    /\ UNCHANGED globals

\* save_to_csv without writeheader (line 425).
save_to_csv_rows_only ==
    /\ document.pc = "loc"
    /\ document.idx = Len(document.urls)
    /\ document' =
         [document EXCEPT
            !.pc = "saved",
            !.csv = [i \in 1..Len(document.listings) |->
                       [k \in 1..Len(fields) |->
                          Cell(document.listings[i], fields[k])]]]
    /\ UNCHANGED globals

\* Lines 402-438, the file written without an error: nothing for no
\* listings, else the header and a row for each listing.
save_to_csv ==
    /\ document.pc = "loc"
    /\ document.idx = Len(document.urls)
    /\ document' =
         [document EXCEPT
            !.pc = "saved",
            !.csv = IF document.listings = <<>> THEN <<>>
                    ELSE <<fields>> \o
                         [i \in 1..Len(document.listings) |->
                            [k \in 1..Len(fields) |->
                               Cell(document.listings[i], fields[k])]]]
    /\ UNCHANGED globals

\* A document is read from its first element to its last, then saved.
InitDecode ==
    /\ InitGlobals
    /\ document \in {[NoDocument EXCEPT !.pc = "loc", !.urls = urls] :
                       urls \in Documents}

NextDecode ==
    \/ ParseListing
    \/ AddOrSkip
    \/ save_to_csv

SpecDecode == InitDecode /\ [][NextDecode]_vars

\* ---- /download

\* The values of request.args.get('file'): a path as its segments, "/" first
\* for an absolute one, or <<>> for None, when the request has no such
\* argument.  "x" is the name of a file that a run may write.
Filenames ==
    {<<"x">>, <<"sub", "..", "x">>, <<"..", "x">>, <<"sub", "..", "..", "x">>,
     <<"/", "x">>, <<>>}

\* posixpath.normpath of a relative path: ".." takes the segment before it
\* away; a ".." with no segment before it stays.
RECURSIVE NormPath(_, _)
NormPath(done, rest) ==
    IF rest = <<>> THEN done
    ELSE IF Head(rest) = ".." /\ done # <<>> /\ done[Len(done)] # ".."
    THEN NormPath(SubSeq(done, 1, Len(done) - 1), Tail(rest))
    ELSE NormPath(Append(done, Head(rest)), Tail(rest))

\* The files there are: in the output directory those that the runs have
\* written, and one of the same name in its parent directory and in the
\* root directory.
IsFile(directory, path) ==
    \/ path = <<"..", "x">>
    \/ path = <<"/", "x">>
    \/ /\ Len(path) = 1
       /\ directory # None
       /\ \E i \in DOMAIN extraction_status.files :
            extraction_status.files[i] = path[1]

\* Lines 1322-1327 with os.path.join in the place of send_from_directory.
download_file_joined(filename) ==
    /\ LET directory == extraction_status.output_dir
       IN response' =
            IF directory = None \/ filename = <<>>
            THEN [status |-> 500, directory |-> None, file |-> <<>>]
            ELSE IF IsFile(directory, NormPath(<<>>, filename))
            THEN [status |-> 200, directory |-> directory,
                  file |-> NormPath(<<>>, filename)]
            ELSE [status |-> 404, directory |-> directory, file |-> <<>>]
    /\ UNCHANGED <<extraction_status, extraction_paused, handler, config,
                   thread, extractor, jobs, calls, logger, stopped, document>>

\* Lines 1322-1327.  extraction_status.get('output_dir', os.getcwd()) is the
\* value of the key, which is there from line 94 on: None until an
\* extractor has been built.  send_from_directory is Flask's: it raises a
\* TypeError for a directory or a name that is None (status 500), answers
\* 404 when safe_join refuses the normalised name (absolute, or leading out
\* of the directory) or when there is no such file, and sends the file
\* otherwise.
download_file(filename) ==
    /\ LET directory == extraction_status.output_dir
       IN response' =
            IF directory = None \/ filename = <<>>
            THEN [status |-> 500, directory |-> None, file |-> <<>>]
            ELSE LET path == NormPath(<<>>, filename)
                 IN IF Head(path) \in {"/", ".."}
                    THEN [status |-> 404, directory |-> directory,
                          file |-> <<>>]
                    ELSE IF IsFile(directory, path)
                    THEN [status |-> 200, directory |-> directory,
                          file |-> path]
                    ELSE [status |-> 404, directory |-> directory,
                          file |-> <<>>]
    /\ UNCHANGED <<extraction_status, extraction_paused, handler, config,
                   thread, extractor, jobs, calls, logger, stopped, document>>

\* One call of /start and its run, with calls of /download at any time.
\* /pause, /resume and /stop write neither output_dir nor a file, and are
\* left out.
NextDownload ==
    \/ \E cfg \in ConfigsAnyFormat(MaxJobs, MaxWorkers) : StartCheck(1, cfg)
    \/ StartSetRunning(1)
    \/ StartReset(1)
    \/ StartReturn(1)
    \/ Construct(1)
    \/ RunBegin(1)
    \/ RunFinish(1)
    \/ \E j \in 1..MaxJobs : TakeJob(1, j)
    \/ \E j \in 1..MaxJobs : CheckStop(1, j)
    \/ \E j \in 1..MaxJobs : Fetch(1, j)
    \/ \E j \in 1..MaxJobs : CheckSeen(1, j)
    \/ \E j \in 1..MaxJobs : AddListing(1, j)
    \/ \E j \in 1..MaxJobs : Save(1, j)
    \/ \E j \in 1..MaxJobs : AddTotal(1, j)
    \/ \E filename \in Filenames : download_file(filename)

SpecDownload == Init /\ [][NextDownload]_vars

\* ---- run() called on an extractor built with the default webui_mode=False

\* Lines 123-171 and 555-583 without the branches of webui_mode: the
\* constructor and run() touch no field of extraction_status, and no
\* WebUILogger is attached to the logger (line 206).  os.makedirs raises to
\* the caller, and an empty list returns at line 569.
RunDirect(r, cfg) ==
    /\ handler[r] = "idle"
    /\ thread[r] = "none"
    /\ config' = [config EXCEPT ![r] = cfg]
    /\ IF MakedirsFails(cfg.output_dir)
       THEN /\ thread' = [thread EXCEPT ![r] = "fatal"]
            /\ UNCHANGED <<extractor, jobs>>
       ELSE IF cfg.sitemaps = <<>>
       THEN /\ thread' = [thread EXCEPT ![r] = "returned"]
            /\ UNCHANGED <<extractor, jobs>>
       ELSE /\ thread' = [thread EXCEPT ![r] = "pool"]
            /\ extractor' = [extractor EXCEPT ![r] =
                 [NoExtractor EXCEPT !.output_dir = cfg.output_dir]]
            /\ jobs' = [jobs EXCEPT ![r] =
                 [i \in 1..Len(cfg.sitemaps) |-> NewJob(cfg.sitemaps[i])]]
    /\ UNCHANGED <<extraction_status, extraction_paused, handler, calls,
                   logger, stopped, document, response>>

\* Lines 585-601 without the branch of line 603: every future has completed.
RunFinishDirect(r) ==
    /\ handler[r] = "idle"
    /\ thread[r] = "pool"
    /\ AllTerminal(r)
    /\ thread' = [thread EXCEPT ![r] = "done"]
    /\ extractor' = [extractor EXCEPT ![r] = NoExtractor]
    /\ jobs' = [jobs EXCEPT ![r] = <<>>]
    /\ UNCHANGED <<extraction_status, extraction_paused, handler, config,
                   calls, logger, stopped, document, response>>

\* One call of run() outside the web UI, in a process whose Flask handlers
\* may be called.  process_sitemap reads extraction_paused and
\* extraction_status['running'] in either mode (lines 514-521).
NextDirect ==
    \/ \E cfg \in Configs(MaxJobs, MaxWorkers) : RunDirect(1, cfg)
    \/ RunFinishDirect(1)
    \/ \E j \in 1..MaxJobs : TakeJob(1, j)
    \/ \E j \in 1..MaxJobs : PauseLoop(1, j)
    \/ \E j \in 1..MaxJobs : CheckStop(1, j)
    \/ pause_extraction
    \/ resume_extraction
    \/ stop_extraction

SpecDirect == Init /\ [][NextDirect]_vars

\* ---- runs of different lengths

\* A call of /start made when no other call has a run under way.
StartWhenIdle(r, cfg) ==
    /\ \A q \in Runs \ {r} : ~RunActive(q) /\ handler[q] # "accepted"
    /\ StartCheck(r, cfg)

\* Up to MaxStarts calls of /start, each for at most MaxJobs sitemaps and one
\* worker, by a client that calls /start when no run is under way and never
\* calls /pause, /resume or /stop.
NextRuns ==
    \/ \E r \in Runs, cfg \in Configs(MaxJobs, 1) : StartWhenIdle(r, cfg)
    \/ \E r \in Runs : StartSetRunning(r)
    \/ \E r \in Runs : StartReset(r)
    \/ \E r \in Runs : StartReturn(r)
    \/ \E r \in Runs : Construct(r)
    \/ \E r \in Runs : RunBegin(r)
    \/ \E r \in Runs : RunFinish(r)
    \/ \E r \in Runs, j \in 1..MaxJobs : TakeJob(r, j)
    \/ \E r \in Runs, j \in 1..MaxJobs : CheckStop(r, j)
    \/ \E r \in Runs, j \in 1..MaxJobs : Fetch(r, j)
    \/ \E r \in Runs, j \in 1..MaxJobs : CheckSeen(r, j)
    \/ \E r \in Runs, j \in 1..MaxJobs : AddListing(r, j)
    \/ \E r \in Runs, j \in 1..MaxJobs : Save(r, j)
    \/ \E r \in Runs, j \in 1..MaxJobs : AddTotal(r, j)

SpecRuns == Init /\ [][NextRuns]_vars

\* ---- properties

RangeOf(seq) == {seq[i] : i \in DOMAIN seq}

RECURSIVE AcceptedUpTo(_, _)
AcceptedUpTo(js, n) ==
    IF n = 0 THEN 0 ELSE AcceptedUpTo(js, n - 1) + Len(js[n].listings)

\* The number of records the jobs of run r have appended to their listings.
Accepted(r) == AcceptedUpTo(jobs[r], Len(jobs[r]))

\* Job j of run r passes its job boundary in this step: it is past the stop
\* test of line 520 and about to fetch.
StartsProcessing(r, j) ==
    /\ j \in DOMAIN jobs[r]
    /\ j \in DOMAIN jobs'[r]
    /\ jobs[r][j].pc # "fetch"
    /\ jobs'[r][j].pc = "fetch"

\* C1: a property id offered by two workers of one run is accepted by exactly
\* one of them: no id is in the listings of two jobs, and the number of
\* accepted records is the number of distinct ids accepted into seen_ids.
C1_DedupExactlyOnce ==
    \A r \in Runs :
        /\ \A i, j \in DOMAIN jobs[r] :
             i # j => RangeOf(jobs[r][i].listings)
                        \cap RangeOf(jobs[r][j].listings) = {}
        /\ Accepted(r) = Cardinality(extractor[r].seen_ids)

\* C2 (as claimed): while the pause flag is set, no job starts being
\* processed.
C2_NoJobStartsWhilePaused ==
    [][\A r \in Runs, j \in 1..MaxJobs :
         StartsProcessing(r, j) => ~extraction_paused]_vars

\* C2 (amended): while the pause flag is set, no job passes the pause test of
\* its job boundary (line 514): a job taken from the queue or woken from its
\* sleep goes on to the stop test only when the flag is clear.
C2_PauseTestBlocks ==
    [][\A r \in Runs, j \in 1..MaxJobs :
         ( /\ j \in DOMAIN jobs[r]
           /\ j \in DOMAIN jobs'[r]
           /\ jobs[r][j].pc \in {"queued", "sleep"}
           /\ jobs'[r][j].pc = "stopChk" ) => ~extraction_paused]_vars

\* C2 witness: a worker sleeps at its job boundary while the run is paused
\* and running.
C2_Witness ==
    /\ extraction_paused
    /\ extraction_status.running
    /\ \E r \in Runs : \E j \in DOMAIN jobs[r] : jobs[r][j].pc = "sleep"

\* C3: once /stop was called during a run, no job of that run starts being
\* processed any more.
C3_StopIsRunScoped ==
    [][\A r \in Runs, j \in 1..MaxJobs :
         stopped[r] => ~StartsProcessing(r, j)]_vars

\* C4: a /start call that finds running set is rejected and changes nothing:
\* no field of extraction_status, no thread, no extractor, no job.
C4_RejectedStartChangesNothing ==
    [][\A r \in Runs :
         (handler[r] = "idle" /\ handler'[r] # "idle"
            /\ extraction_status.running)
         => /\ handler'[r] = "rejected"
            /\ extraction_status' = extraction_status
            /\ extraction_paused' = extraction_paused
            /\ thread' = thread
            /\ extractor' = extractor
            /\ jobs' = jobs]_vars

\* C4 witness: a /start call was rejected while a run's background thread
\* was alive.
C4_Witness ==
    \E r \in Runs : handler[r] = "rejected" /\ \E q \in Runs : ThreadLive(q)

\* C5: at most one run is active at any time: of the /start calls accepted
\* (past the test of line 1251), at most one has not yet seen its background
\* thread end.
C5_OneRunAtATime ==
    Cardinality({r \in Runs : handler[r] = "accepted" \/ RunActive(r)}) <= 1

\* C6: a malformed document fails its own job only.  The step that fails the
\* job leaves the other jobs, running and error as they were; a run with a
\* failed job ends completed (end_time set, error unset), and unless /stop was
\* called every other job has been processed to its end.
C6_ParseFailureContained ==
    [][\A r \in Runs :
         /\ \A j \in DOMAIN jobs[r] :
              (j \in DOMAIN jobs'[r] /\ jobs[r][j].pc # "failed"
                 /\ jobs'[r][j].pc = "failed")
              => /\ extraction_status'.error = extraction_status.error
                 /\ extraction_status'.running = extraction_status.running
                 /\ thread' = thread
                 /\ \A i \in DOMAIN jobs[r] \ {j} : jobs'[r][i] = jobs[r][i]
         /\ ( /\ thread[r] = "pool"
              /\ thread'[r] # "pool"
              /\ \E j \in DOMAIN jobs[r] : jobs[r][j].pc = "failed" )
            => /\ thread'[r] = "done"
               /\ extraction_status'.error = None
               /\ extraction_status'.end_time = r
               /\ ~extraction_status'.running
               /\ ~stopped[r] =>
                    \A i \in DOMAIN jobs[r] : jobs[r][i].pc \in {"done", "failed"}
      ]_vars

\* C6 witness: every future of a run has completed; one failed on a malformed
\* document, another was processed and accepted records.
C6_Witness ==
    \E r \in Runs :
        /\ thread[r] = "pool"
        /\ AllTerminal(r)
        /\ ~stopped[r]
        /\ \E j \in DOMAIN jobs[r] : jobs[r][j].pc = "failed"
        /\ \E i \in DOMAIN jobs[r] :
             jobs[r][i].pc = "done" /\ jobs[r][i].listings # <<>>

\* C7: when the background thread of an accepted run ends (other than by the
\* fatal error of lines 1272-1275), running is false and the run has recorded
\* its end_time.
C7_RunLeavesRunning ==
    [][\A r \in Runs :
         (ThreadLive(r) /\ thread'[r] \in {"returned", "done"})
         => /\ ~extraction_status'.running
            /\ extraction_status'.end_time = r]_vars

\* C8: when every job of a run has completed, total_properties is the number
\* of records its jobs accepted.
C8_TotalIsSumOfJobs ==
    \A r \in Runs :
        (thread[r] = "pool" /\ AllTerminal(r))
        => /\ extractor[r].total_properties = Accepted(r)
           /\ extraction_status.total_properties = Accepted(r)

\* C9: a /start call whose output directory cannot be created never shows
\* running: while it is the only accepted call, running is false.
C9_FatalNeverRunning ==
    \A r \in Runs :
        ( /\ handler[r] \notin {"idle", "rejected"}
          /\ MakedirsFails(config[r].output_dir)
          /\ \A q \in Runs \ {r} : handler[q] \in {"idle", "rejected"} )
        => ~extraction_status.running

\* C10: a /start call whose output directory cannot be created never answers
\* 'started'.
C10_FatalStartReturnsError ==
    \A r \in Runs :
        MakedirsFails(config[r].output_dir) => handler[r] # "started"

\* C11: a /start call whose output_format is neither "csv" nor "json" answers
\* with an error, and none of its jobs is fetched or processed.
C11_InvalidFormatIsFatal ==
    \A r \in Runs :
        (config[r] # NoConfig /\ config[r].output_format \notin Formats)
        => /\ handler[r] # "started"
           /\ \A j \in DOMAIN jobs[r] :
                jobs[r][j].pc \in {"queued", "sleep", "stopChk", "skipped"}

\* C12: the log never holds more than 200 entries.
C12_LogTailBounded == extraction_status.logs <= LogLimit

\* C13: no appended entry is lost other than by being among the oldest
\* dropped: the log holds the latest entries of the order of the appends, so
\* it is not shorter than the smaller of 200 and the number of appends, and
\* its last entry is the latest append.
C13_NoAppendLost ==
    /\ extraction_status.logs >=
         (IF logger.appended < LogLimit THEN logger.appended ELSE LogLimit)
    /\ extraction_status.logs > 0 => logger.newest = logger.appended

\* The fields of extraction_status that describe a run have the values of a
\* run r that has not begun: nothing of an earlier run is left in them.
RunStateReset(st, r) ==
    /\ st.progress = 0
    /\ st.processed_categories = 0
    /\ st.current_category = ""
    /\ st.total_properties = 0
    /\ st.logs = 0
    /\ st.files = <<>>
    /\ st.error = None
    /\ st.start_time \notin 1..(r - 1)
    /\ st.end_time \notin 1..(r - 1)

\* C14: when an accepted /start call makes its run observable as running
\* (line 1255) after the run of an earlier call has ended, and no other run is
\* active, every field of extraction_status that describes a run is already
\* reset.
C14_ResetBeforeRunning ==
    [][\A r \in Runs :
         ( /\ handler[r] = "accepted"
           /\ handler'[r] = "resetting"
           /\ \E q \in 1..(r - 1) : thread[q] \in {"done", "fatal"}
           /\ \A q \in Runs \ {r} : ~RunActive(q) /\ handler[q] # "accepted" )
         => RunStateReset(extraction_status', r)]_vars

\* Some background thread has ended and no run is active.
RunsEnded ==
    /\ \E r \in Runs : thread[r] \in {"returned", "done", "fatal"}
    /\ \A r \in Runs : ~RunActive(r) /\ handler[r] # "accepted"

\* C15 (as claimed): /pause called while the pause flag is set leaves the
\* state as it is, and /stop called after the run has ended leaves running,
\* end_time, total_properties, files and error as they are.
C15_ControlCallsIdempotent ==
    [][ /\ (pause_extraction /\ extraction_paused)
           => /\ extraction_status' = extraction_status
              /\ extraction_paused' = extraction_paused
        /\ (stop_extraction /\ RunsEnded)
           => /\ extraction_status'.running = extraction_status.running
              /\ extraction_status'.end_time = extraction_status.end_time
              /\ extraction_status'.total_properties =
                   extraction_status.total_properties
              /\ extraction_status'.files = extraction_status.files
              /\ extraction_status'.error = extraction_status.error
      ]_vars

\* C15 (amended): /pause called while the pause flag is set leaves the flag
\* set and changes nothing but the log, which gains one entry.  /stop called
\* after the run has ended leaves end_time, total_properties, files and error
\* as they are and running false; running was false already unless the run
\* ended by the early return of line 569.
C15_ControlCallsRepeatable ==
    [][ /\ (pause_extraction /\ extraction_paused)
           => /\ extraction_paused'
              /\ extraction_status' =
                   [extraction_status EXCEPT !.logs = @ + 1]
              /\ UNCHANGED <<handler, thread, extractor, jobs>>
        /\ (stop_extraction /\ RunsEnded)
           => /\ ~extraction_status'.running
              /\ (\A r \in Runs : thread[r] # "returned")
                   => ~extraction_status.running
              /\ extraction_status'.end_time = extraction_status.end_time
              /\ extraction_status'.total_properties =
                   extraction_status.total_properties
              /\ extraction_status'.files = extraction_status.files
              /\ extraction_status'.error = extraction_status.error
              /\ UNCHANGED <<handler, thread, extractor, jobs>>
      ]_vars

\* C15 witness: /pause was called once and the flag is set, a run has
\* completed with records, and a further control call can be made.
C15_Witness ==
    /\ extraction_paused
    /\ calls = 1
    /\ calls < MaxCalls
    /\ RunsEnded
    /\ \E r \in Runs : thread[r] = "done"
    /\ extraction_status.total_properties > 0

\* Job j of run r takes a step.
JobSteps(r, j) ==
    /\ j \in DOMAIN jobs[r]
    /\ j \in DOMAIN jobs'[r]
    /\ jobs'[r][j] # jobs[r][j]

\* The run of call r ends in this step with every future completed.
RunEnds(r) == thread[r] = "pool" /\ thread'[r] # "pool"

\* C16: a job whose download failed yields no records.  It has no listings;
\* its steps leave files, saved_files, error, running and the other jobs as
\* they are, and the total it stores at line 546 is the total it read; the run
\* ends completed with error unset, and unless /stop was called every other
\* job has been processed to its end.
C16_FetchFailureYieldsNothing ==
    [][\A r \in Runs :
         /\ \A j \in 1..MaxJobs :
              (JobSteps(r, j) /\ jobs'[r][j].download = "failed")
              => /\ jobs'[r][j].listings = <<>>
                 /\ jobs'[r][j].pc \in {"save", "total", "done"}
                 /\ extraction_status'.files = extraction_status.files
                 /\ extractor'[r].saved_files = extractor[r].saved_files
                 /\ extraction_status'.error = extraction_status.error
                 /\ extraction_status'.running = extraction_status.running
                 /\ thread' = thread
                 /\ \A i \in DOMAIN jobs[r] \ {j} : jobs'[r][i] = jobs[r][i]
                 /\ IF jobs[r][j].pc = "total"
                    THEN /\ extractor'[r].total_properties = jobs[r][j].tot
                         /\ extraction_status'.total_properties =
                              jobs[r][j].tot
                    ELSE /\ extractor'[r].total_properties =
                              extractor[r].total_properties
                         /\ extraction_status'.total_properties =
                              extraction_status.total_properties
         /\ ( /\ RunEnds(r)
              /\ \E j \in DOMAIN jobs[r] : jobs[r][j].download = "failed" )
            => /\ thread'[r] = "done"
               /\ extraction_status'.error = None
               /\ extraction_status'.end_time = r
               /\ ~stopped[r] =>
                    \A i \in DOMAIN jobs[r] : jobs[r][i].pc \in {"done", "failed"}
      ]_vars

\* C16 witness: every future of a run has completed; the download of one job
\* failed, another job was processed and its records written and counted.
C16_Witness ==
    \E r \in Runs :
        /\ thread[r] = "pool"
        /\ AllTerminal(r)
        /\ ~stopped[r]
        /\ \E j \in DOMAIN jobs[r] :
             jobs[r][j].download = "failed" /\ jobs[r][j].pc = "done"
        /\ \E i \in DOMAIN jobs[r] :
             jobs[r][i].pc = "done" /\ jobs[r][i].listings # <<>>
        /\ extraction_status.files # <<>>
        /\ extraction_status.total_properties > 0

\* The jobs of run r whose output file was written.
Written(r) == {i \in DOMAIN jobs[r] : jobs[r][i].write = "ok"}

\* C17: a write failure fails nothing but the job's own file.  The step that
\* fails to write leaves files, saved_files, error, running and the other
\* jobs as they are; the run ends completed with error unset, one entry in
\* files for every job whose file was written, and unless /stop was called
\* every job has been processed to its end.
C17_WriteFailureContained ==
    [][\A r \in Runs :
         /\ \A j \in 1..MaxJobs :
              (JobSteps(r, j) /\ jobs[r][j].pc = "save"
                 /\ jobs'[r][j].write = "failed")
              => /\ extraction_status'.files = extraction_status.files
                 /\ extractor'[r].saved_files = extractor[r].saved_files
                 /\ extraction_status'.error = extraction_status.error
                 /\ extraction_status'.running = extraction_status.running
                 /\ thread' = thread
                 /\ \A i \in DOMAIN jobs[r] \ {j} : jobs'[r][i] = jobs[r][i]
         /\ ( /\ RunEnds(r)
              /\ \E j \in DOMAIN jobs[r] : jobs[r][j].write = "failed" )
            => /\ thread'[r] = "done"
               /\ extraction_status'.error = None
               /\ extraction_status'.end_time = r
               /\ Len(extractor[r].saved_files) = Cardinality(Written(r))
               /\ Len(extraction_status'.files) = Cardinality(Written(r))
               /\ ~stopped[r] =>
                    \A i \in DOMAIN jobs[r] : jobs[r][i].pc \in {"done", "failed"}
      ]_vars

\* C17 witness: every future of a run has completed; one job failed to write
\* its records, another wrote its file.
C17_Witness ==
    \E r \in Runs :
        /\ thread[r] = "pool"
        /\ AllTerminal(r)
        /\ ~stopped[r]
        /\ \E j \in DOMAIN jobs[r] :
             jobs[r][j].write = "failed" /\ jobs[r][j].pc = "done"
        /\ \E i \in DOMAIN jobs[r] :
             jobs[r][i].write = "ok" /\ jobs[r][i].pc = "done"
        /\ Len(extraction_status.files) = 1

\* Job j of run r has passed the stop test of line 520 and has not ended.
InFlightPastBoundary(r, j) ==
    /\ j \in DOMAIN jobs[r]
    /\ jobs[r][j].pc \in {"fetch", "entry", "add", "save", "total"}

\* C18: a job that has passed its job boundary runs to completion, whatever
\* /pause and /stop do meanwhile.  It is never given up (only a job that has
\* not called download_sitemap is skipped); it ends, having gone through the
\* save of lines 540-543, when line 546 stores the total it read plus the
\* number of its listings; and until it has ended its worker can always take
\* its next step, whatever the pause flag and running are.
C18_InFlightJobCompletes ==
    /\ [](\A r \in Runs : \A j \in DOMAIN jobs[r] :
            /\ jobs[r][j].pc = "skipped" => jobs[r][j].download = "pending"
            /\ jobs[r][j].pc = "done" => /\ jobs[r][j].download # "pending"
                                         /\ jobs[r][j].write # "pending")
    /\ [][\A r \in Runs, j \in 1..MaxJobs :
            (JobSteps(r, j) /\ jobs'[r][j].pc = "done")
            => /\ jobs[r][j].pc = "total"
               /\ extractor'[r].total_properties =
                    jobs[r][j].tot + Len(jobs[r][j].listings)]_vars
    /\ [](\A r \in Runs, j \in 1..MaxJobs :
            InFlightPastBoundary(r, j) => ENABLED Worker(r, j))

\* C18 witness: a job is past its boundary with records to save, after
\* /pause and /stop were both called while its run was active.
C18_Witness ==
    \E r \in Runs : \E j \in DOMAIN jobs[r] :
        /\ jobs[r][j].pc = "save"
        /\ jobs[r][j].listings # <<>>
        /\ extraction_paused
        /\ stopped[r]
        /\ ~extraction_status.running

\* The worker of job j of run r is in the pause loop of lines 514-517.
Blocked(r, j) ==
    /\ j \in DOMAIN jobs[r]
    /\ jobs[r][j].pc = "sleep"

\* C19: a worker in the pause loop does not stay there once released.  When
\* the pause flag is clear it leaves the loop, unless the flag is set again
\* first; once /stop was called during its run it exits without processing
\* its job.
C19_ReleasedWorkerMoves ==
    \A r \in Runs, j \in 1..MaxJobs :
        /\ (Blocked(r, j) /\ ~extraction_paused)
             ~> (~Blocked(r, j) \/ extraction_paused)
        /\ (Blocked(r, j) /\ stopped[r])
             ~> (j \in DOMAIN jobs[r] /\ jobs[r][j].pc = "skipped")

\* C20: within one run at most max_workers jobs are in flight (taken by a
\* pool worker and not yet ended), so that a job is taken only by a worker
\* that has ended the job it took before.
C20_BoundedWorkers ==
    \A r \in Runs :
        thread[r] = "pool" => Cardinality(InFlight(r)) <= config[r].workers

\* C20 witness: every worker of a run is busy with a job past its boundary
\* while another job waits in the queue.
C20_Witness ==
    \E r \in Runs :
        /\ thread[r] = "pool"
        /\ Cardinality(InFlight(r)) = config[r].workers
        /\ \A j \in InFlight(r) : InFlightPastBoundary(r, j)
        /\ \E i \in DOMAIN jobs[r] : jobs[r][i].pc = "queued"

\* s is t with some of its elements removed.
RECURSIVE IsSubseq(_, _)
IsSubseq(s, t) ==
    IF s = <<>> THEN TRUE
    ELSE IF t = <<>> THEN FALSE
    ELSE IF Head(s) = Head(t) THEN IsSubseq(Tail(s), Tail(t))
    ELSE IsSubseq(s, Tail(t))

\* The <url> elements of its document that the loop of lines 351-387 has
\* gone past for a job.
Passed(job) ==
    IF job.pc \in {"entry", "add"} THEN SubSeq(DocAt(job.url), 1, job.idx - 1)
    ELSE IF job.download = "ok" /\ job.pc \in {"save", "total", "done"}
         THEN DocAt(job.url)
         ELSE <<>>

C22_FirstSeenWins ==
    [][\A r \in Runs, j \in 1..MaxJobs :
         ( /\ JobSteps(r, j)
           /\ Len(jobs'[r][j].listings) > Len(jobs[r][j].listings) )
         => LET new == jobs'[r][j].listings
                id == new[Len(new)]
            IN /\ id \notin extractor[r].seen_ids
               /\ \A i \in DOMAIN jobs[r] :
                    id \notin RangeOf(jobs[r][i].listings)
               /\ SubSeq(new, 1, Len(new) - 1) = jobs[r][j].listings
               /\ \A i \in DOMAIN jobs[r] \ {j} : jobs'[r][i] = jobs[r][i]
      ]_vars

\* ---- the decoder and the CSV file (SpecDecode)

\* The <loc> text that line 366 has parsed and lines 368-387 have yet to act
\* on.
Parsing == document.urls[document.idx + 1]

\* The segments of the path of a URL, as line 286 finds them.
Segments(url) == Split(Strip(UrlPath(url), "/"), "/")

\* A slug, split on "-", ends in two upper-case letters and five digits after
\* a prefix that is not empty.
EndsInStateZip(tokens) ==
    LET n == Len(tokens)
    IN /\ n >= 3
       /\ n = 3 => tokens[1] # ""
       /\ Len(tokens[n - 1]) = 2 /\ AllIn(tokens[n - 1], Upper)
       /\ Len(tokens[n]) = 5 /\ AllIn(tokens[n], Digit)

\* The URL of the decoding example.
MainStUrl == "/homedetails/123-Main-St-Springfield-IL-62701/12345_zpid/"

\* C23 as stated: the example URL decodes to the address "123 Main St" and
\* the city "Springfield IL".
C23_DecodeExample ==
    (document.pc = "parsed" /\ Parsing = MainStUrl)
    => document.parsed =
         <<[property_id |-> "12345", address |-> "123 Main St",
            city |-> "Springfield IL", state |-> "IL", zipcode |-> "62701"]>>

\* C23: the example URL decodes to the id "12345", the address "123 Main",
\* the city "St Springfield" (the last two tokens before the state), the
\* state "IL" and the ZIP code "62701".
C23_DecodeExampleLastTwoTokens ==
    (document.pc = "parsed" /\ Parsing = MainStUrl)
    => document.parsed =
         <<[property_id |-> "12345", address |-> "123 Main",
            city |-> "St Springfield", state |-> "IL", zipcode |-> "62701"]>>

\* C23 witness: the example URL has been parsed.
C23_Witness ==
    /\ document.pc = "parsed"
    /\ Parsing = MainStUrl
    /\ document.parsed # <<>>

\* C24: a URL whose path has fewer than three segments, or whose second
\* segment does not end in -<2 upper-case letters>-<5 digits> after a prefix
\* that is not empty, parses to None; what parses is a dict of all five
\* fields; and the loop passes over an entry that parsed to None, adding no
\* listing and no id.
C24_DecodeFailureIsNone ==
    /\ [](document.pc = "parsed" =>
            /\ ( /\ Parsing # None
                 /\ \/ Len(Segments(Parsing)) < 3
                    \/ ~EndsInStateZip(Split(Segments(Parsing)[2], "-")) )
               => document.parsed = <<>>
            /\ document.parsed # <<>> =>
                 /\ Len(document.parsed) = 1
                 /\ DOMAIN document.parsed[1] =
                      {"property_id", "address", "city", "state", "zipcode"})
    /\ [][(document.pc = "parsed" /\ document.parsed = <<>>) =>
            /\ document'.listings = document.listings
            /\ document'.seen_ids = document.seen_ids
            /\ document'.idx = document.idx + 1]_vars

\* C24 witness: of a document of two entries, the first with a state in
\* lower case, the second alone became a listing.
C24_Witness ==
    /\ document.pc = "loc"
    /\ document.idx = 2
    /\ document.urls[1] =
         "/homedetails/123-Main-St-Springfield-il-62701/10_zpid/"
    /\ Len(document.listings) = 1
    /\ document.listings[1].listing_url = document.urls[2]

\* C25: for a slug that matches, split on "-" into tokens of which the last
\* two are the state and the ZIP code and the others the prefix: with two
\* prefix tokens or more the city is the last two of them joined by a space
\* and the address those before joined by spaces; with one, the address is
\* that token and the city is empty.
C25_CityIsLastTwoTokens ==
    ( /\ document.pc = "parsed"
      /\ Parsing # None
      /\ Len(Segments(Parsing)) >= 3
      /\ EndsInStateZip(Split(Segments(Parsing)[2], "-")) )
    => LET tokens == Split(Segments(Parsing)[2], "-")
           n == Len(tokens)
       IN /\ document.parsed # <<>>
          /\ document.parsed[1].state = tokens[n - 1]
          /\ document.parsed[1].zipcode = tokens[n]
          /\ n >= 4 =>
               /\ document.parsed[1].city
                    = tokens[n - 3] \o " " \o tokens[n - 2]
               /\ document.parsed[1].address
                    = Join(SubSeq(tokens, 1, n - 4), " ")
          /\ n = 3 =>
               /\ document.parsed[1].address = tokens[1]
               /\ document.parsed[1].city = ""

\* C25 witness: a slug with a prefix of two tokens became a listing without
\* an address, and a slug with a prefix of one token has been parsed.
C25_Witness ==
    /\ document.pc = "parsed"
    /\ document.idx = 1
    /\ document.urls[1] = "/homedetails/Oak-Chicago-IL-60601/8_zpid/"
    /\ Parsing = "/homedetails/Springfield-IL-62701/9_zpid/"
    /\ Len(document.listings) = 1
    /\ document.listings[1].address = ""
    /\ document.parsed # <<>>

\* C26 as stated: the header of a CSV file ends in last_modified_local.
C26_HeaderLocal ==
    (document.pc = "saved" /\ document.csv # <<>>)
    => document.csv[1] =
         <<"property_id", "listing_url", "address", "city", "state",
           "zipcode", "last_modified", "last_modified_local">>

\* C26: the first row of a CSV file is the eight column names property_id,
\* listing_url, address, city, state, zipcode, last_modified and
\* last_modified_est, in this order, and a row for each listing follows it.
C26_HeaderEst ==
    (document.pc = "saved" /\ document.csv # <<>>)
    => /\ document.csv[1] =
            <<"property_id", "listing_url", "address", "city", "state",
              "zipcode", "last_modified", "last_modified_est">>
       /\ Len(document.csv) = 1 + Len(document.listings)

\* C26 witness: a file of two listings has been written.
C26_Witness ==
    /\ document.pc = "saved"
    /\ Len(document.listings) = 2
    /\ Len(document.csv) = 3

\* ---- /download (SpecDownload)

\* The path leaves the directory it is relative to, or is absolute: read
\* from the left, it is at some point above where it began.
RECURSIVE Escapes(_, _)
Escapes(path, depth) ==
    IF path = <<>> THEN FALSE
    ELSE IF Head(path) = "/" THEN TRUE
    ELSE IF Head(path) = ".."
    THEN depth = 0 \/ Escapes(Tail(path), depth - 1)
    ELSE Escapes(Tail(path), depth + 1)

C28_RunBeginsUnpaused ==
    [][\A r \in Runs :
         (handler[r] = "resetting" /\ handler'[r] = "sleeping")
         => ~extraction_paused']_vars

\* C29: run() with a list of sitemaps processes every one of them unless
\* /stop is called during the run: no worker returns from process_sitemap
\* at the tests of lines 516 and 520 in a run that was not stopped.
C29_NoJobSkippedUnlessStopped ==
    [][\A r \in Runs, j \in 1..MaxJobs :
         ( /\ j \in DOMAIN jobs[r]
           /\ j \in DOMAIN jobs'[r]
           /\ jobs[r][j].pc # "skipped"
           /\ jobs'[r][j].pc = "skipped" ) => stopped[r]]_vars

\* C30: in every state that /status can return, processed_categories is
\* between 0 and total_categories and progress is between 0 and 100.
C30_ProgressWithinBounds ==
    /\ 0 <= extraction_status.processed_categories
    /\ extraction_status.processed_categories
         <= extraction_status.total_categories
    /\ 0 <= extraction_status.progress
    /\ extraction_status.progress <= 100

\* C31: when a run ends with every job processed and no /stop called during
\* it, the status shows progress = 100 and processed_categories =
\* total_categories; and no step of a worker of the run lowers
\* processed_categories.
C31_FinalProgressComplete ==
    [][\A r \in Runs :
         /\ ( /\ thread[r] = "pool"
              /\ thread'[r] = "done"
              /\ ~stopped[r]
              /\ \A j \in DOMAIN jobs[r] : jobs[r][j].pc \in {"done", "failed"} )
            => /\ extraction_status'.progress = 100
               /\ extraction_status'.processed_categories
                    = extraction_status'.total_categories
         /\ \A j \in 1..MaxJobs :
              JobSteps(r, j) =>
                extraction_status'.processed_categories
                  >= extraction_status.processed_categories]_vars

\* The number of records in the output files that the first n jobs of js
\* have written.
RECURSIVE WrittenUpTo(_, _)
WrittenUpTo(js, n) ==
    IF n = 0 THEN 0
    ELSE WrittenUpTo(js, n - 1)
           + (IF js[n].write = "ok" THEN Len(js[n].listings) ELSE 0)

\* C32: when every job of a run has completed, total_properties is the
\* number of records that its jobs have written to their output files: a
\* record that reached no file is not counted.
C32_TotalCountsWrittenRecords ==
    \A r \in Runs :
        (thread[r] = "pool" /\ AllTerminal(r))
        => extraction_status.total_properties
             = WrittenUpTo(jobs[r], Len(jobs[r]))

\* C33: two jobs of a run that have each written a file have written files
\* of different names, also when their sitemap URLs end in the same segment
\* and both files are named within the same second.
C33_DistinctJobsDistinctFiles ==
    \A r \in Runs :
        \A i, j \in Written(r) :
            ( /\ i # j
              /\ jobs[r][i].listings # <<>>
              /\ jobs[r][j].listings # <<>> )
            => Category(jobs[r][i].url) # Category(jobs[r][j].url)

====
